---------------------------- MODULE Spec2Model ----------------------------
(***************************************************************************)
(* Lifecycle manager for a JDK and a Tomcat on one host: the install,      *)
(* upgrade, rollback and uninstall commands of mavee_updater_cli.js, each  *)
(* modelled command by command (every runCommand / shell chain element is  *)
(* one step that either succeeds or fails).                                *)
(*                                                                         *)
(* A version string is a sequence of digits (<<1, 2>> is "12"); a          *)
(* directory name is a record [pfx, v] standing for "<pfx>-<v>".           *)
(***************************************************************************)
EXTENDS Naturals, Sequences, FiniteSets

\* ------------------------------------------------------------ bounds
MaxOps == 3
MaxFaults == 1

\* ------------------------------------------------------------ strings
\* The version strings the descriptors name. "1" is a proper prefix of "12",
\* and "12" and "2" compare differently as text (ls) and as numbers (sort -V).
JavaVersions == {<<1>>, <<2>>, <<1, 2>>}

TomcatVersions == {<<1>>, <<1, 2>>}

\* The empty output of a pipeline that matched nothing.
NoVersion == <<>>

\* 's/tomcat-//' applied to "apache-tomcat-<v>" leaves "apache-<v>": the
\* letters are one symbol that is greater than every digit.
ApacheMark == 10

Procs == {"cli", "cron"}

PfxOrder == <<"apache-tomcat", "jdk", "openjdk", "tomcat">>

PfxRank(pfx) == CHOOSE i \in 1..Len(PfxOrder) : PfxOrder[i] = pfx

Name(pfx, v) == [pfx |-> pfx, v |-> v]

RECURSIVE LexLess(_, _)
LexLess(s, t) ==
  IF t = <<>> THEN FALSE
  ELSE IF s = <<>> THEN TRUE
  ELSE IF Head(s) # Head(t) THEN Head(s) < Head(t)
  ELSE LexLess(Tail(s), Tail(t))

RECURSIVE IsPrefix(_, _)
IsPrefix(s, t) ==
  IF s = <<>> THEN TRUE
  ELSE IF t = <<>> THEN FALSE
  ELSE Head(s) = Head(t) /\ IsPrefix(Tail(s), Tail(t))

RECURSIVE VerValue(_)
VerValue(s) ==
  IF s = <<>> THEN 0
  ELSE VerValue(SubSeq(s, 1, Len(s) - 1)) * 10 + s[Len(s)]

\* The order of `ls`: by name, byte by byte.
LsLess(a, b) ==
  \/ PfxRank(a.pfx) < PfxRank(b.pfx)
  \/ a.pfx = b.pfx /\ LexLess(a.v, b.v)

\* The order of `sort -V`: digit runs compare as numbers.
SortVLess(a, b) ==
  \/ PfxRank(a.pfx) < PfxRank(b.pfx)
  \/ a.pfx = b.pfx /\ VerValue(a.v) < VerValue(b.v)

\* grep '<pat>' on a directory listing.
Matches(n, pat) ==
  CASE pat = "openjdk-" -> n.pfx = "openjdk"
    [] pat = "jdk-" -> n.pfx \in {"jdk", "openjdk"}
    [] pat = "tomcat-" -> n.pfx \in {"tomcat", "apache-tomcat"}
    [] pat = "apache-tomcat-" -> n.pfx = "apache-tomcat"

Grep(S, pat) == {n \in S : Matches(n, pat)}

\* `| head -n 1` of a listing; NoName when the listing is empty.
NoName == Name("", NoVersion)

HeadOf(S) ==
  IF S = {} THEN NoName
  ELSE CHOOSE n \in S : \A m \in S \ {n} : LsLess(n, m)

\* `| sort -V | tail -n 1`
TailOfSortV(S) ==
  IF S = {} THEN NoName
  ELSE CHOOSE n \in S : \A m \in S \ {n} : SortVLess(m, n)

\* The shell glob /opt/<pfx>-*
Glob(S, pfx) == {n \in S : n.pfx = pfx}

\* sed 's/<pfx>-//' on a name that matched grep '<pfx>-'
Strip(n, pfx) ==
  IF n = NoName THEN NoVersion
  ELSE IF n.pfx = pfx THEN n.v
  ELSE <<ApacheMark>> \o n.v

\* ------------------------------------------------------------ state
VARIABLES
  opt,             \* the directories of /opt named <pfx>-<v>
  javaBackups,     \* the directories of /opt/java_backups
  tomcatBackups,   \* the directories of /opt/tomcat_backups
  units,           \* /etc/systemd/system/tomcat-<v>.service, each with its JAVA_HOME version
  etcEnvironment,  \* the JAVA_HOME= lines of /etc/environment, in order
  etcProfile,      \* the export JAVA_HOME= lines of /etc/profile, in order
  prevRecord,      \* previous_versions.json
  pc,              \* each invocation's position
  loc,             \* each invocation's locals and outcome
  ops,             \* commands started so far
  faults,          \* commands of the host that failed so far
  env              \* what the environment may do: commands issued, host
                   \* faults, and whether a descriptor's URL may be unfetchable

host == <<opt, javaBackups, tomcatBackups, units, etcEnvironment, etcProfile, prevRecord>>
vars == <<opt, javaBackups, tomcatBackups, units, etcEnvironment, etcProfile, prevRecord,
          pc, loc, ops, faults, env>>

NoRecord == [java |-> NoVersion, tomcat |-> NoVersion, present |-> FALSE]

\* What a claim compares before and after a command.
HostState ==
  [opt |-> opt, javaBackups |-> javaBackups, tomcatBackups |-> tomcatBackups,
   units |-> units, etcEnvironment |-> etcEnvironment, etcProfile |-> etcProfile,
   prevRecord |-> prevRecord]

EmptyHost ==
  [opt |-> {}, javaBackups |-> {}, tomcatBackups |-> {},
   units |-> {}, etcEnvironment |-> <<>>, etcProfile |-> <<>>,
   prevRecord |-> NoRecord]

NoLast == [cmd |-> "none", fails |-> {}]

IdleLoc(last) ==
  [cmd |-> "none", cfgJava |-> NoVersion, cfgTomcat |-> NoVersion,
   curJava |-> NoVersion, curTomcat |-> NoVersion,
   existing |-> NoName, javaUpgraded |-> FALSE,
   rbJava |-> NoVersion, rbTomcat |-> NoVersion, rbRet |-> "none", rbCalls |-> 0,
   todo |-> {}, fails |-> {}, exit |-> "running", said |-> "nothing",
   pre |-> EmptyHost, last |-> last]

Init ==
  /\ opt = {}
  /\ javaBackups = {}
  /\ tomcatBackups = {}
  /\ units = {}
  /\ etcEnvironment = <<>>
  /\ etcProfile = <<>>
  /\ prevRecord = NoRecord
  /\ pc = [p \in Procs |-> "idle"]
  /\ loc = [p \in Procs |-> IdleLoc(NoLast)]
  /\ ops = 0
  /\ faults = 0
  /\ env = [ops |-> MaxOps, faults |-> MaxFaults, badUrl |-> TRUE]

\* ------------------------------------------------------------ files
\* mv /opt/<src> /opt/<dst>: a rename, or a move into <dst> when it exists.
Mv(S, src, dst) == IF dst \in S THEN S \ {src} ELSE (S \ {src}) \cup {dst}

\* tar -xzf <archive> -C /opt: the archive unpacks to <pfx>-<v>.
Extract(S, pfx, v) == S \cup {Name(pfx, v)}

Unit(v, javaHome) == [v |-> v, javaHome |-> javaHome]

UnitNames(U) == {u.v : u \in U}

\* echo '<content>' | sudo tee <serviceFilePath>
WriteUnit(U, v, javaHome) == {u \in U : u.v # v} \cup {Unit(v, javaHome)}

\* ------------------------------------------------------------ steps
\* One external command: it succeeds, or (while the fault budget lasts) fails.
\* A failing command leaves the files as they were.
Outcomes == IF faults < env.faults THEN {TRUE, FALSE} ELSE {TRUE}

Goto(p, label) == pc' = [pc EXCEPT ![p] = label]

Set(p, r) == loc' = [loc EXCEPT ![p] = r]

SetHost(h) ==
  /\ opt' = h.opt
  /\ javaBackups' = h.javaBackups
  /\ tomcatBackups' = h.tomcatBackups
  /\ units' = h.units
  /\ etcEnvironment' = h.etcEnvironment
  /\ etcProfile' = h.etcProfile
  /\ prevRecord' = h.prevRecord

\* A command failed at the step the invocation is at.
Failed(p) == [loc[p] EXCEPT !.fails = @ \cup {pc[p]}]

\* runCommand at `label`: on success the host becomes h, the locals l, and
\* control goes to `next`; on failure (the promise rejects) nothing changes
\* and control goes to `handler`.
Cmd(p, label, next, handler, h, l) ==
  /\ pc[p] = label
  /\ \E ok \in Outcomes :
       IF ok
       THEN /\ SetHost(h)
            /\ Set(p, l)
            /\ Goto(p, next)
            /\ UNCHANGED faults
       ELSE /\ UNCHANGED host
            /\ Set(p, Failed(p))
            /\ Goto(p, handler)
            /\ faults' = faults + 1
  /\ UNCHANGED <<ops, env>>

\* A command that changes neither a modelled file nor a local.
Plain(p, label, next, handler) == Cmd(p, label, next, handler, HostState, loc[p])

\* wget of the descriptor's URL: whether it can be fetched is an input of the
\* command (the URL is good or bad), not a fault of the host.
Download(p, label, next, handler) ==
  /\ pc[p] = label
  /\ \E ok \in (IF env.badUrl THEN {TRUE, FALSE} ELSE {TRUE}) :
       IF ok THEN Goto(p, next) /\ UNCHANGED loc
             ELSE Goto(p, handler) /\ Set(p, Failed(p))
  /\ UNCHANGED <<host, ops, faults, env>>

\* A step that cannot fail (a test in the program, a pipeline ending in head).
Pure(p, label, next, l) ==
  /\ pc[p] = label
  /\ Set(p, l)
  /\ Goto(p, next)
  /\ UNCHANGED <<host, ops, faults, env>>

\* ------------------------------------------------------------ the CLI
Begin(p, cmd, j, t) ==
  [IdleLoc(loc[p].last) EXCEPT !.cmd = cmd, !.cfgJava = j, !.cfgTomcat = t,
                               !.pre = HostState]

\* The process ends: `said` is the last line of the command's report.
End(p, label, said, exit) ==
  /\ pc[p] = label
  /\ Goto(p, "done")
  /\ Set(p, [loc[p] EXCEPT !.said = said, !.exit = exit])
  /\ UNCHANGED <<host, ops, faults, env>>

\* The invocation is over; the next one of this caller may start.
Reap(p) ==
  /\ pc[p] = "done"
  /\ Goto(p, "idle")
  /\ Set(p, IdleLoc([cmd |-> loc[p].cmd, fails |-> loc[p].fails]))
  /\ UNCHANGED <<host, ops, faults, env>>

\* ------------------------------------------------------------ install
\* `install`: the descriptor mavee_config_install.json is read when the
\* module loads.
StartInstall(p) ==
  /\ pc[p] = "idle"
  /\ ops < env.ops
  /\ \E j \in JavaVersions, t \in TomcatVersions : Set(p, Begin(p, "install", j, t))
  /\ Goto(p, "IJ_Prepare")
  /\ ops' = ops + 1
  /\ UNCHANGED <<host, faults, env>>

\* sudo dnf update && sudo mkdir -p /opt
IJ_Prepare(p) == Plain(p, "IJ_Prepare", "IJ_Wget", "I_Return")

\* A variant of install in which a failed download of the JDK is logged and
\* installTomcat is started all the same.
IJ_Wget_GoesOn(p) == Download(p, "IJ_Wget", "IJ_Tar", "IT_Prepare")

\* sudo wget -q <javaUrl> -O /tmp/java.tar.gz
IJ_Wget(p) == Download(p, "IJ_Wget", "IJ_Tar", "I_Return")

\* sudo tar -xzf /tmp/java.tar.gz -C /opt
IJ_Tar(p) ==
  Cmd(p, "IJ_Tar", "IJ_RmOld", "I_Return",
      [HostState EXCEPT !.opt = Extract(opt, "jdk", loc[p].cfgJava)], loc[p])

\* extracted_folder=$(ls /opt | grep 'jdk' | head -n 1) && sudo rm -rf /opt/openjdk-<v>
IJ_RmOld(p) ==
  Cmd(p, "IJ_RmOld", "IJ_Mv", "I_Return",
      [HostState EXCEPT !.opt = opt \ {Name("openjdk", loc[p].cfgJava)}],
      [loc[p] EXCEPT !.existing = HeadOf(Grep(opt, "jdk-"))])

\* sudo mv /opt/$extracted_folder /opt/openjdk-<v>
IJ_Mv(p) ==
  Cmd(p, "IJ_Mv", "IJ_EnvFile", "I_Return",
      [HostState EXCEPT !.opt = Mv(opt, loc[p].existing, Name("openjdk", loc[p].cfgJava))],
      loc[p])

\* rm -f /tmp/java.tar.gz && echo 'JAVA_HOME=...' | sudo tee /etc/environment
IJ_EnvFile(p) ==
  Cmd(p, "IJ_EnvFile", "IJ_Profile", "I_Return",
      [HostState EXCEPT !.etcEnvironment = <<loc[p].cfgJava>>], loc[p])

\* echo 'export JAVA_HOME=...' | sudo tee -a /etc/profile && echo 'export PATH=...' | ...
IJ_Profile(p) ==
  Cmd(p, "IJ_Profile", "IJ_Source", "I_Return",
      [HostState EXCEPT !.etcProfile = Append(etcProfile, loc[p].cfgJava)], loc[p])

\* . /etc/profile
IJ_Source(p) == Plain(p, "IJ_Source", "IT_Prepare", "I_Return")

installJava(p) ==
  \/ IJ_Prepare(p) \/ IJ_Wget(p) \/ IJ_Tar(p) \/ IJ_RmOld(p) \/ IJ_Mv(p)
  \/ IJ_EnvFile(p) \/ IJ_Profile(p) \/ IJ_Source(p)

\* The chain of installTomcat is `a && ... && adduser || true && chown && chmod
\* && chmod +x bin/*.sh`: a failure left of `|| true` skips to the chown.
\* sudo dnf update && sudo dnf install -y wget
IT_Prepare(p) == Plain(p, "IT_Prepare", "IT_Mkdir", "IT_Perms")

\* sudo mkdir -p /opt/tomcat-<v>
IT_Mkdir(p) ==
  Cmd(p, "IT_Mkdir", "IT_Wget", "IT_Perms",
      [HostState EXCEPT !.opt = opt \cup {Name("tomcat", loc[p].cfgTomcat)}], loc[p])

\* sudo wget -q <tomcatUrl> -O <tempTarFile>
IT_Wget(p) == Download(p, "IT_Wget", "IT_Tar", "IT_Perms")

\* sudo tar -xzf <tempTarFile> -C /opt/tomcat-<v> --strip-components=1
IT_Tar(p) == Plain(p, "IT_Tar", "IT_Perms", "IT_Perms")

\* The chain was cut short before the archive was unpacked.
ChainCut(p) == loc[p].fails \cap {"IT_Prepare", "IT_Mkdir", "IT_Wget", "IT_Tar"} # {}

\* sudo chown -R ... && sudo chmod -R 755 ... && sudo chmod -R +x <dir>/bin/*.sh:
\* fails for certain when the directory is missing or holds no bin/*.sh, which is
\* the case of a directory this chain made and did not fill.
IT_PermsFails(p) ==
  \/ Name("tomcat", loc[p].cfgTomcat) \notin opt
  \/ ChainCut(p) /\ Name("tomcat", loc[p].cfgTomcat) \notin loc[p].pre.opt

IT_Perms(p) ==
  IF IT_PermsFails(p)
  THEN Pure(p, "IT_Perms", "I_Return", Failed(p))
  ELSE Plain(p, "IT_Perms", "IT_Unit", "I_Return")

\* if (!fs.existsSync(serviceFilePath)) fs.writeFileSync(serviceFilePath, ...)
IT_Unit(p) ==
  /\ pc[p] = "IT_Unit"
  /\ units' = IF loc[p].cfgTomcat \in UnitNames(units) THEN units
              ELSE WriteUnit(units, loc[p].cfgTomcat, loc[p].cfgJava)
  /\ Goto(p, "IT_Chmod")
  /\ UNCHANGED <<opt, javaBackups, tomcatBackups, etcEnvironment, etcProfile,
                 prevRecord, loc, ops, faults, env>>

\* sudo chmod 644 <serviceFilePath>
IT_Chmod(p) == Plain(p, "IT_Chmod", "IT_Restart", "I_Return")

\* sudo service tomcat-<v> restart || shutdown.sh && startup.sh
IT_Restart(p) == Plain(p, "IT_Restart", "I_Record", "I_Return")

installTomcat(p) ==
  \/ IT_Prepare(p) \/ IT_Mkdir(p) \/ IT_Wget(p) \/ IT_Tar(p) \/ IT_Perms(p)
  \/ IT_Unit(p) \/ IT_Chmod(p) \/ IT_Restart(p)

\* fs.writeFileSync(versionsFilePath, ...): its failure is logged and dropped.
createPreviousVersionsFile(p) ==
  Cmd(p, "I_Record", "I_Return", "I_Return",
      [HostState EXCEPT !.prevRecord =
         [java |-> loc[p].cfgJava, tomcat |-> loc[p].cfgTomcat, present |-> TRUE]],
      loc[p])

\* install() catches every error and returns; safeAction then reports success
\* and the process ends with status 0.
I_Return(p) == End(p, "I_Return", "completed successfully", 0)

install(p) ==
  \/ StartInstall(p) \/ installJava(p) \/ installTomcat(p)
  \/ createPreviousVersionsFile(p) \/ I_Return(p)

\* ------------------------------------------------------------ upgrade
\* getCurrentVersions: ls /opt | grep '<pfx>-' | sed 's/<pfx>-//' | head -n 1
currentJavaVersion == Strip(HeadOf(Grep(opt, "openjdk-")), "openjdk")

currentTomcatVersion == Strip(HeadOf(Grep(opt, "tomcat-")), "tomcat")

StartUpgrade(p) ==
  /\ pc[p] = "idle"
  /\ ops < env.ops
  /\ Set(p, Begin(p, "upgrade", NoVersion, NoVersion))
  /\ Goto(p, "U_ReadConfig")
  /\ ops' = ops + 1
  /\ UNCHANGED <<host, faults, env>>

\* readUpgradeConfiguration, then getCurrentVersions: the descriptor names a
\* version of each component, or is missing or malformed (the error is thrown
\* to upgrade's outer catch).
readUpgradeConfiguration(p) ==
  /\ pc[p] = "U_ReadConfig"
  /\ \/ \E j \in JavaVersions, t \in TomcatVersions :
          /\ Set(p, [loc[p] EXCEPT !.cfgJava = j, !.cfgTomcat = t,
                                   !.curJava = currentJavaVersion,
                                   !.curTomcat = currentTomcatVersion])
          /\ Goto(p, "U_Validate")
     \/ /\ Set(p, Failed(p))
        /\ Goto(p, "U_Return")
  /\ UNCHANGED <<host, ops, faults, env>>

\* A variant of validateUpgradeConditions that stops only when both versions
\* of the descriptor are the installed ones.
validateUpgradeConditions_BothOnly(p) ==
  /\ pc[p] = "U_Validate"
  /\ IF /\ loc[p].cfgJava = currentJavaVersion
        /\ loc[p].cfgTomcat = currentTomcatVersion
     THEN /\ Goto(p, "done")
          /\ Set(p, [loc[p] EXCEPT !.said = "aborted: both already installed",
                                   !.exit = 1])
     ELSE /\ Goto(p, "UJ_Find")
          /\ UNCHANGED loc
  /\ UNCHANGED <<host, ops, faults, env>>

\* A variant of validateUpgradeConditions that lets every upgrade through.
validateUpgradeConditions_Never(p) ==
  /\ pc[p] = "U_Validate"
  /\ Goto(p, "UJ_Find")
  /\ UNCHANGED <<host, loc, ops, faults, env>>

\* validateUpgradeConditions: process.exit(1) when the desired version of Java
\* or of Tomcat is the installed one.
validateUpgradeConditions(p) ==
  /\ pc[p] = "U_Validate"
  /\ LET sameJava == loc[p].cfgJava = currentJavaVersion
         sameTomcat == loc[p].cfgTomcat = currentTomcatVersion
     IN  IF sameJava /\ sameTomcat
         THEN /\ Goto(p, "done")
              /\ Set(p, [loc[p] EXCEPT !.said = "aborted: both already installed",
                                       !.exit = 1])
         ELSE IF sameJava
         THEN /\ Goto(p, "done")
              /\ Set(p, [loc[p] EXCEPT !.said = "aborted: java already installed",
                                       !.exit = 1])
         ELSE IF sameTomcat
         THEN /\ Goto(p, "done")
              /\ Set(p, [loc[p] EXCEPT !.said = "aborted: tomcat already installed",
                                       !.exit = 1])
         ELSE /\ Goto(p, "UJ_Find")
              /\ UNCHANGED loc
  /\ UNCHANGED <<host, ops, faults, env>>

\* cp -r <source> <destination> into a backup area.
BackupCopy(area, name) == area \cup {name}

\* A variant of createBackup's first half that empties the component's whole
\* backup area, so that the area never holds more than the newest backup.
createBackupRm_SingleSlot(p, label, next, handler, area) ==
  Cmd(p, label, next, handler, [HostState EXCEPT ![area] = {}], loc[p])

\* createBackup, first half: if (fs.existsSync(destination)) sudo rm -rf <destination>
createBackupRm(p, label, next, handler, area) ==
  IF loc[p].existing \in HostState[area]
  THEN Cmd(p, label, next, handler,
           [HostState EXCEPT ![area] = @ \ {loc[p].existing}], loc[p])
  ELSE Pure(p, label, next, loc[p])

\* A variant of createBackup's second half that reports success without
\* having copied anything.
createBackupCp_NoCopy(p, label, next, handler, area) ==
  Pure(p, label, next, loc[p])

\* createBackup, second half: sudo cp -r <source> <destination>; cp fails for
\* certain when the source is gone.
createBackupCp(p, label, next, handler, area) ==
  IF loc[p].existing \in opt
  THEN Cmd(p, label, next, handler,
           [HostState EXCEPT ![area] = BackupCopy(@, loc[p].existing)], loc[p])
  ELSE Pure(p, label, handler, Failed(p))

\* EnvironmentVariableManager of upgrade and rollbackUpgrade: sed deletes the
\* declarations, echo | tee -a appends the new one.
SetBinding(lines, v) == <<v>>

\* sudo mkdir -p /opt/java_backups; ls /opt | grep 'openjdk-' | head -n 1
UJ_Find(p) ==
  LET existingJava == HeadOf(Grep(opt, "openjdk-"))
  IN  Cmd(p, "UJ_Find", IF existingJava = NoName THEN "UJ_Dnf" ELSE "UJ_BackupRm",
          "U_Return", HostState, [loc[p] EXCEPT !.existing = existingJava])

UJ_BackupRm(p) == createBackupRm(p, "UJ_BackupRm", "UJ_BackupCp", "U_Return", "javaBackups")

UJ_BackupCp(p) == createBackupCp(p, "UJ_BackupCp", "UJ_RmOld", "U_Return", "javaBackups")

\* sudo rm -rf /opt/<existingJava>
UJ_RmOld(p) ==
  Cmd(p, "UJ_RmOld", "UJ_Dnf", "U_Return",
      [HostState EXCEPT !.opt = opt \ {loc[p].existing}], loc[p])

\* sudo dnf update && sudo dnf install -y wget
UJ_Dnf(p) == Plain(p, "UJ_Dnf", "UJ_Wget", "U_Return")

\* sudo wget -q <javaUrl> -O <tempTarFile>
UJ_Wget(p) == Download(p, "UJ_Wget", "UJ_Tar", "UJ_WgetCatch")

\* catch: getCurrentVersions(); rollbackUpgrade(javaVersion, currentTomcatVersion); throw
UJ_WgetCatch(p) ==
  Pure(p, "UJ_WgetCatch", "RU_CheckJava",
       [loc[p] EXCEPT !.rbJava = loc[p].cfgJava, !.rbTomcat = currentTomcatVersion,
                      !.rbRet = "U_Return", !.rbCalls = @ + 1])

\* sudo tar -xzf <tempTarFile> -C /opt
UJ_Tar(p) ==
  Cmd(p, "UJ_Tar", "UJ_Mv", "U_Return",
      [HostState EXCEPT !.opt = Extract(opt, "jdk", loc[p].cfgJava)], loc[p])

\* ls /opt | grep 'jdk-' | head -n 1; sudo mv /opt/<extractedFolder> <javaDir>
UJ_Mv(p) ==
  LET extractedFolder == HeadOf(Grep(opt, "jdk-"))
  IN  IF extractedFolder = NoName
      THEN Pure(p, "UJ_Mv", "UJ_Env", loc[p])
      ELSE Cmd(p, "UJ_Mv", "UJ_Env", "U_Return",
               [HostState EXCEPT
                  !.opt = Mv(opt, extractedFolder, Name("openjdk", loc[p].cfgJava))],
               loc[p])

\* rm -f <tempTarFile>; the sed / echo | tee -a script on /etc/profile and /etc/environment
UJ_Env(p) ==
  Cmd(p, "UJ_Env", "UJ_Source", "U_Return",
      [HostState EXCEPT !.etcProfile = SetBinding(@, loc[p].cfgJava),
                        !.etcEnvironment = SetBinding(@, loc[p].cfgJava)],
      loc[p])

\* bash -c "source /etc/profile"; return true
UJ_Source(p) ==
  Cmd(p, "UJ_Source", "UT_Find", "U_Return", HostState,
      [loc[p] EXCEPT !.javaUpgraded = TRUE])

upgradeJava(p) ==
  \/ UJ_Find(p) \/ UJ_BackupRm(p) \/ UJ_BackupCp(p) \/ UJ_RmOld(p) \/ UJ_Dnf(p)
  \/ UJ_Wget(p) \/ UJ_WgetCatch(p) \/ UJ_Tar(p) \/ UJ_Mv(p) \/ UJ_Env(p)
  \/ UJ_Source(p)

\* sudo mkdir -p /opt/tomcat_backups; ls /opt | grep 'tomcat-' | head -n 1
UT_Find(p) ==
  LET existingTomcat == HeadOf(Grep(opt, "tomcat-"))
  IN  Cmd(p, "UT_Find", IF existingTomcat = NoName THEN "UT_Wget" ELSE "UT_BackupRm",
          "U_Catch", HostState, [loc[p] EXCEPT !.existing = existingTomcat])

UT_BackupRm(p) == createBackupRm(p, "UT_BackupRm", "UT_BackupCp", "U_Catch", "tomcatBackups")

UT_BackupCp(p) == createBackupCp(p, "UT_BackupCp", "UT_RmOld", "U_Catch", "tomcatBackups")

\* sudo rm -rf /opt/<existingTomcat>
UT_RmOld(p) ==
  Cmd(p, "UT_RmOld", "UT_Wget", "U_Catch",
      [HostState EXCEPT !.opt = opt \ {loc[p].existing}], loc[p])

\* sudo wget -q <tomcatUrl> -O <tempTarFile>
UT_Wget(p) == Download(p, "UT_Wget", "UT_Tar", "UT_WgetCatch")

\* catch: getCurrentVersions(); rollbackUpgrade(currentJavaVersion, currentTomcatVersion); throw
UT_WgetCatch(p) ==
  Pure(p, "UT_WgetCatch", "RU_CheckJava",
       [loc[p] EXCEPT !.rbJava = currentJavaVersion, !.rbTomcat = currentTomcatVersion,
                      !.rbRet = "U_Catch", !.rbCalls = @ + 1])

\* sudo tar -xzf <tempTarFile> -C /opt
UT_Tar(p) ==
  Cmd(p, "UT_Tar", "UT_Mv", "U_Catch",
      [HostState EXCEPT !.opt = Extract(opt, "apache-tomcat", loc[p].cfgTomcat)], loc[p])

\* ls /opt | grep 'apache-tomcat-' | head -n 1; sudo mv /opt/<extractedFolder> <tomcatDir>
UT_Mv(p) ==
  LET extractedFolder == HeadOf(Grep(opt, "apache-tomcat-"))
  IN  IF extractedFolder = NoName
      THEN Pure(p, "UT_Mv", "UT_Perms", loc[p])
      ELSE Cmd(p, "UT_Mv", "UT_Perms", "U_Catch",
               [HostState EXCEPT
                  !.opt = Mv(opt, extractedFolder, Name("tomcat", loc[p].cfgTomcat))],
               loc[p])

\* rm -f <tempTarFile>; ensureTomcatUserAndGroup; chown; chmod; chmod +x
UT_Perms(p) == Plain(p, "UT_Perms", "UT_WriteUnit", "U_Catch")

\* A variant of upgradeTomcat that goes on to the restart and the pruning
\* without having written the unit of the new version.
UT_WriteUnit_Skipped(p) == Plain(p, "UT_WriteUnit", "UT_Restart", "U_Catch")

\* echo '<serviceFileContent>' | sudo tee <serviceFilePath>: the unit names
\* JAVA_HOME=/opt/openjdk-<javaVersion>
UT_WriteUnit(p) ==
  Cmd(p, "UT_WriteUnit", "UT_Restart", "U_Catch",
      [HostState EXCEPT !.units = WriteUnit(units, loc[p].cfgTomcat, loc[p].cfgJava)],
      loc[p])

\* ls /etc/systemd/system | grep 'tomcat-' | grep -v 'tomcat-<tomcatVersion>':
\* grep -v drops every unit whose name holds tomcat-<tomcatVersion>.
OldServices(U, tomcatVersion) == {v \in UnitNames(U) : ~IsPrefix(tomcatVersion, v)}

\* chmod 644, chown, ensureTomcatUserAndGroup, chown, chmod, shutdown.sh,
\* startup.sh; then the listing of the old service files
UT_Restart(p) ==
  LET oldServices == OldServices(units, loc[p].cfgTomcat)
  IN  Cmd(p, "UT_Restart", IF oldServices = {} THEN "U_Reload" ELSE "UT_Prune",
          "U_Catch", HostState, [loc[p] EXCEPT !.todo = oldServices])

\* for (const oldService of oldServiceList) sudo rm -f /etc/systemd/system/<oldService>
UT_Prune(p) ==
  LET oldService == CHOOSE v \in loc[p].todo :
                      \A w \in loc[p].todo \ {v} : LexLess(v, w)
  IN  Cmd(p, "UT_Prune", IF loc[p].todo = {oldService} THEN "U_Reload" ELSE "UT_Prune",
          "U_Catch",
          [HostState EXCEPT !.units = {u \in units : u.v # oldService}],
          [loc[p] EXCEPT !.todo = @ \ {oldService}])

upgradeTomcat(p) ==
  \/ UT_Find(p) \/ UT_BackupRm(p) \/ UT_BackupCp(p) \/ UT_RmOld(p) \/ UT_Wget(p)
  \/ UT_WgetCatch(p) \/ UT_Tar(p) \/ UT_Mv(p) \/ UT_Perms(p) \/ UT_WriteUnit(p)
  \/ UT_Restart(p) \/ UT_Prune(p)

\* sudo systemctl daemon-reload (of upgradeTomcat after a removal, and of upgrade)
U_Reload(p) == Plain(p, "U_Reload", "U_Return", "U_Catch")

\* A variant of upgrade's catch that hands rollbackUpgrade the descriptor's
\* versions instead of the versions found at the start.
U_Catch_DescriptorVersions(p) ==
  IF loc[p].javaUpgraded
  THEN Pure(p, "U_Catch", "RU_CheckJava",
            [loc[p] EXCEPT !.rbJava = loc[p].cfgJava, !.rbTomcat = loc[p].cfgTomcat,
                           !.rbRet = "U_Return", !.rbCalls = @ + 1])
  ELSE Pure(p, "U_Catch", "U_Return", loc[p])

\* upgrade's catch of a Tomcat failure: if (javaUpgraded) rollbackUpgrade(
\* currentJavaVersion, currentTomcatVersion); throw error
U_Catch(p) ==
  IF loc[p].javaUpgraded
  THEN Pure(p, "U_Catch", "RU_CheckJava",
            [loc[p] EXCEPT !.rbJava = loc[p].curJava, !.rbTomcat = loc[p].curTomcat,
                           !.rbRet = "U_Return", !.rbCalls = @ + 1])
  ELSE Pure(p, "U_Catch", "U_Return", loc[p])

\* upgrade() catches every error and returns; the command then reports
\* success and calls process.exit(0).
U_Return(p) == End(p, "U_Return", "completed successfully", 0)

\* ------------------------------------------------------------ rollbackUpgrade
\* if (fs.existsSync(javaBackupDir))
RU_CheckJava(p) ==
  Pure(p, "RU_CheckJava",
       IF Name("openjdk", loc[p].rbJava) \in javaBackups THEN "RU_JavaRm"
       ELSE "RU_CheckTomcat", loc[p])

\* sudo rm -rf /opt/openjdk-*
RU_JavaRm(p) ==
  Cmd(p, "RU_JavaRm", "RU_JavaCp", loc[p].rbRet,
      [HostState EXCEPT !.opt = opt \ Glob(opt, "openjdk")], loc[p])

\* sudo cp -r <javaBackupDir> /opt/openjdk-<previousJavaVersion>
RU_JavaCp(p) ==
  Cmd(p, "RU_JavaCp", "RU_JavaEnv", loc[p].rbRet,
      [HostState EXCEPT !.opt = opt \cup {Name("openjdk", loc[p].rbJava)}], loc[p])

RU_JavaEnv(p) ==
  Cmd(p, "RU_JavaEnv", "RU_JavaSource", loc[p].rbRet,
      [HostState EXCEPT !.etcProfile = SetBinding(@, loc[p].rbJava),
                        !.etcEnvironment = SetBinding(@, loc[p].rbJava)],
      loc[p])

\* bash -c "source /etc/profile"
RU_JavaSource(p) == Plain(p, "RU_JavaSource", "RU_CheckTomcat", loc[p].rbRet)

\* if (fs.existsSync(tomcatBackupDir))
RU_CheckTomcat(p) ==
  Pure(p, "RU_CheckTomcat",
       IF Name("tomcat", loc[p].rbTomcat) \in tomcatBackups THEN "RU_TomcatRm"
       ELSE loc[p].rbRet, loc[p])

\* A variant of rollbackUpgrade's removal that clears only the directory it
\* is about to restore.
RU_TomcatRm_OnlyPrevious(p) ==
  Cmd(p, "RU_TomcatRm", "RU_TomcatCp", loc[p].rbRet,
      [HostState EXCEPT !.opt = opt \ {Name("tomcat", loc[p].rbTomcat)}], loc[p])

\* sudo rm -rf /opt/tomcat-*
RU_TomcatRm(p) ==
  Cmd(p, "RU_TomcatRm", "RU_TomcatCp", loc[p].rbRet,
      [HostState EXCEPT !.opt = opt \ Glob(opt, "tomcat")], loc[p])

\* sudo cp -r <tomcatBackupDir> /opt/tomcat-<previousTomcatVersion>
RU_TomcatCp(p) ==
  Cmd(p, "RU_TomcatCp", "RU_TomcatRestart", loc[p].rbRet,
      [HostState EXCEPT !.opt = opt \cup {Name("tomcat", loc[p].rbTomcat)}], loc[p])

\* ensureTomcatUserAndGroup; chown; chmod; service tomcat-<v> restart || ...
RU_TomcatRestart(p) == Plain(p, "RU_TomcatRestart", loc[p].rbRet, loc[p].rbRet)

rollbackUpgrade(p) ==
  \/ RU_CheckJava(p) \/ RU_JavaRm(p) \/ RU_JavaCp(p) \/ RU_JavaEnv(p)
  \/ RU_JavaSource(p) \/ RU_CheckTomcat(p) \/ RU_TomcatRm(p) \/ RU_TomcatCp(p)
  \/ RU_TomcatRestart(p)

upgrade(p) ==
  \/ StartUpgrade(p) \/ readUpgradeConfiguration(p) \/ validateUpgradeConditions(p)
  \/ upgradeJava(p) \/ upgradeTomcat(p) \/ U_Reload(p) \/ U_Catch(p)
  \/ rollbackUpgrade(p) \/ U_Return(p)

\* ------------------------------------------------------------ rollback
StartRollback(p) ==
  /\ pc[p] = "idle"
  /\ ops < env.ops
  /\ Set(p, Begin(p, "rollback", NoVersion, NoVersion))
  /\ Goto(p, "RJ_Ls")
  /\ ops' = ops + 1
  /\ UNCHANGED <<host, faults, env>>

\* ls /opt/java_backups | grep 'openjdk-' | sort -V | tail -n 1;
\* if (!latestJavaBackup) { console.error(...); return; }
RJ_Ls(p) ==
  LET latestJavaBackup == TailOfSortV(Grep(javaBackups, "openjdk-"))
  IN  Pure(p, "RJ_Ls", IF latestJavaBackup = NoName THEN "RT_Ls" ELSE "RJ_Rm",
           [loc[p] EXCEPT !.existing = latestJavaBackup])

\* sudo rm -rf /opt/openjdk-*
RJ_Rm(p) ==
  Cmd(p, "RJ_Rm", "RJ_Cp", "RT_Ls",
      [HostState EXCEPT !.opt = opt \ Glob(opt, "openjdk")], loc[p])

\* cp -r <backup> /opt/<name>: the backup stays where it is.
Restore(S, name) == S \cup {name}

\* A variant of rollbackJava's restore that moves the backup into /opt.
RJ_Cp_Moves(p) ==
  Cmd(p, "RJ_Cp", "RJ_Env", "RT_Ls",
      [HostState EXCEPT !.opt = Restore(opt, loc[p].existing),
                        !.javaBackups = @ \ {loc[p].existing}], loc[p])

\* sudo cp -r <javaBackupDir> /opt/<latestJavaBackup>
RJ_Cp(p) ==
  Cmd(p, "RJ_Cp", "RJ_Env", "RT_Ls",
      [HostState EXCEPT !.opt = Restore(opt, loc[p].existing)], loc[p])

\* sudo sed -i '/^JAVA_HOME=/d' /etc/environment && echo ... | sudo tee -a
\* /etc/environment && . /etc/environment
RJ_Env(p) ==
  Cmd(p, "RJ_Env", "RT_Ls", "RT_Ls",
      [HostState EXCEPT !.etcEnvironment = SetBinding(@, loc[p].existing.v)], loc[p])

rollbackJava(p) == RJ_Ls(p) \/ RJ_Rm(p) \/ RJ_Cp(p) \/ RJ_Env(p)

\* ls /opt/tomcat_backups | grep 'tomcat-' | sort -V | tail -n 1;
\* if (!latestTomcatBackup) { console.error(...); return; }
RT_Ls(p) ==
  LET latestTomcatBackup == TailOfSortV(Grep(tomcatBackups, "tomcat-"))
  IN  Pure(p, "RT_Ls", IF latestTomcatBackup = NoName THEN "R_Return" ELSE "RT_Rm",
           [loc[p] EXCEPT !.existing = latestTomcatBackup])

\* systemctl stop tomcat* || true; systemctl disable tomcat* || true;
\* sudo rm -rf /opt/tomcat-*
RT_Rm(p) ==
  Cmd(p, "RT_Rm", "RT_Cp", "R_Return",
      [HostState EXCEPT !.opt = opt \ Glob(opt, "tomcat")], loc[p])

\* sudo cp -r <tomcatBackupDir> /opt/<latestTomcatBackup>
RT_Cp(p) ==
  Cmd(p, "RT_Cp", "RT_Perms", "R_Return",
      [HostState EXCEPT !.opt = Restore(opt, loc[p].existing)], loc[p])

\* chown; chmod; chmod +x
RT_Perms(p) == Plain(p, "RT_Perms", "RT_WriteUnit", "R_Return")

\* echo $JAVA_HOME in a child of the command's process: the variable as the
\* invoking shell had it, unset or as a file declared it when the command began.
ShellJavaHome(p) ==
  {NoVersion}
    \cup {loc[p].pre.etcEnvironment[i] : i \in 1..Len(loc[p].pre.etcEnvironment)}
    \cup {loc[p].pre.etcProfile[i] : i \in 1..Len(loc[p].pre.etcProfile)}

\* tomcatVersion = latestTomcatBackup.replace("tomcat-", ""); echo '<content>' |
\* sudo tee /etc/systemd/system/tomcat-<tomcatVersion>.service
RT_WriteUnit(p) ==
  \E javaHome \in ShellJavaHome(p) :
    Cmd(p, "RT_WriteUnit", "RT_Activate", "R_Return",
        [HostState EXCEPT
           !.units = WriteUnit(units, Strip(loc[p].existing, "tomcat"), javaHome)],
        loc[p])

\* chmod 644; systemctl daemon-reload; enable; restart
RT_Activate(p) == Plain(p, "RT_Activate", "R_Return", "R_Return")

rollbackTomcat(p) ==
  \/ RT_Ls(p) \/ RT_Rm(p) \/ RT_Cp(p) \/ RT_Perms(p) \/ RT_WriteUnit(p)
  \/ RT_Activate(p)

\* rollback() returns whatever its parts did; safeAction then reports success
\* and the process ends with status 0.
R_Return(p) == End(p, "R_Return", "completed successfully", 0)

rollback(p) == StartRollback(p) \/ rollbackJava(p) \/ rollbackTomcat(p) \/ R_Return(p)

\* ------------------------------------------------------------ uninstall
StartUninstall(p) ==
  /\ pc[p] = "idle"
  /\ ops < env.ops
  /\ Set(p, Begin(p, "uninstall", NoVersion, NoVersion))
  /\ Goto(p, "XJ_RmOpt")
  /\ ops' = ops + 1
  /\ UNCHANGED <<host, faults, env>>

\* The chain of uninstallJava is `rm && rm && sed && sed && sed && sed && sed
\* || true && unset && . /etc/environment && . ~/.bashrc`: a failure left of
\* `|| true` skips to the unset.
\* sudo rm -rf /opt/openjdk-*
XJ_RmOpt(p) ==
  Cmd(p, "XJ_RmOpt", "XJ_RmBackups", "XJ_Reload",
      [HostState EXCEPT !.opt = opt \ Glob(opt, "openjdk")], loc[p])

\* sudo rm -rf /opt/java_backups
XJ_RmBackups(p) ==
  Cmd(p, "XJ_RmBackups", "XJ_SedEnvironment", "XJ_Reload",
      [HostState EXCEPT !.javaBackups = {}], loc[p])

\* sudo sed -i '/JAVA_HOME/d' /etc/environment
XJ_SedEnvironment(p) ==
  Cmd(p, "XJ_SedEnvironment", "XJ_SedProfile", "XJ_Reload",
      [HostState EXCEPT !.etcEnvironment = <<>>], loc[p])

\* sudo sed -i '/JAVA_HOME/d' /etc/profile
XJ_SedProfile(p) ==
  Cmd(p, "XJ_SedProfile", "XJ_SedRc", "XJ_Reload",
      [HostState EXCEPT !.etcProfile = <<>>], loc[p])

\* sed -i '/JAVA_HOME/d' ~/.bashrc && sed ... ~/.bash_profile && sed ... ~/.zshrc
XJ_SedRc(p) == Plain(p, "XJ_SedRc", "XJ_Reload", "XJ_Reload")

\* unset JAVA_HOME && . /etc/environment && . ~/.bashrc
XJ_Reload(p) == Plain(p, "XJ_Reload", "XT_RmUnits", "XT_RmUnits")

uninstallJava(p) ==
  \/ XJ_RmOpt(p) \/ XJ_RmBackups(p) \/ XJ_SedEnvironment(p) \/ XJ_SedProfile(p)
  \/ XJ_SedRc(p) \/ XJ_Reload(p)

\* uninstallTomcat catches its own errors and returns to its caller: the
\* `uninstall` command goes on to removePreviousVersionsFile, fullUninstall
\* prints its last line and returns.
AfterUninstallTomcat(p) ==
  IF loc[p].cmd = "fullUninstall" THEN "F_Return" ELSE "X_Record"

\* systemctl stop / disable / daemon-reexec / daemon-reload, each `|| true`;
\* sudo rm -f /etc/systemd/system/tomcat-*.service; rm -f /lib/systemd/system/...
XT_RmUnits(p) ==
  Cmd(p, "XT_RmUnits", "XT_Kill", AfterUninstallTomcat(p),
      [HostState EXCEPT !.units = {}], loc[p])

\* ps aux | grep -i tomcat | grep -v grep | awk '{print $2}' | xargs -I {} sudo kill -9 {}
XT_Kill(p) == Plain(p, "XT_Kill", "XT_RmOpt", AfterUninstallTomcat(p))

\* sudo rm -rf /opt/tomcat-* /usr/share/tomcat-* ... || true
XT_RmOpt(p) ==
  Cmd(p, "XT_RmOpt", "XT_RmBackups", "XT_RmBackups",
      [HostState EXCEPT !.opt = opt \ Glob(opt, "tomcat")], loc[p])

\* sudo rm -rf /opt/tomcat_backups || true
XT_RmBackups(p) ==
  Cmd(p, "XT_RmBackups", "XT_Sed", "XT_Sed",
      [HostState EXCEPT !.tomcatBackups = {}], loc[p])

\* sed -i '/CATALINA_HOME/d' on /etc/environment, /etc/profile, ~/.bashrc, ...
XT_Sed(p) ==
  Plain(p, "XT_Sed", AfterUninstallTomcat(p), AfterUninstallTomcat(p))

uninstallTomcat(p) ==
  \/ XT_RmUnits(p) \/ XT_Kill(p) \/ XT_RmOpt(p) \/ XT_RmBackups(p) \/ XT_Sed(p)

\* A variant of removePreviousVersionsFile without the existsSync test: the
\* unlink of a missing file throws.
removePreviousVersionsFile_NoTest(p) ==
  IF prevRecord.present
  THEN Cmd(p, "X_Record", "X_Return", "X_Return",
           [HostState EXCEPT !.prevRecord = NoRecord], loc[p])
  ELSE Pure(p, "X_Record", "X_Return", Failed(p))

\* if (fs.existsSync(versionsFilePath)) { chown; chmod 777; fs.unlinkSync }
removePreviousVersionsFile(p) ==
  IF prevRecord.present
  THEN Cmd(p, "X_Record", "X_Return", "X_Return",
           [HostState EXCEPT !.prevRecord = NoRecord], loc[p])
  ELSE Pure(p, "X_Record", "X_Return", loc[p])

\* Every part catches its own errors; safeAction then reports success and the
\* process ends with status 0.
X_Return(p) == End(p, "X_Return", "completed successfully", 0)

uninstall(p) ==
  \/ StartUninstall(p) \/ uninstallJava(p) \/ uninstallTomcat(p)
  \/ removePreviousVersionsFile(p) \/ X_Return(p)

\* ------------------------------------------------------------ fullUninstall
\* The export fullUninstall of the uninstall module, called by a program that
\* requires the module: uninstallJava(), then uninstallTomcat().
StartFullUninstall(p) ==
  /\ pc[p] = "idle"
  /\ ops < env.ops
  /\ Set(p, Begin(p, "fullUninstall", NoVersion, NoVersion))
  /\ Goto(p, "XJ_RmOpt")
  /\ ops' = ops + 1
  /\ UNCHANGED <<host, faults, env>>

\* console.log("Full uninstallation completed."): both parts caught their own
\* errors, the promise resolves.
F_Return(p) == End(p, "F_Return", "Full uninstallation completed", 0)

fullUninstall(p) == StartFullUninstall(p) \/ F_Return(p)

\* ------------------------------------------------------------ specification
Caller == {"cli"}

Next ==
  \E p \in Caller :
    \/ install(p) \/ upgrade(p) \/ rollback(p) \/ uninstall(p) \/ fullUninstall(p)
    \/ Reap(p)

Spec == Init /\ [][Next]_vars

\* The same program on a host where no command fails and every URL can be
\* fetched, with one more command issued: the steps of the program's failure
\* handlers (the catch blocks and rollbackUpgrade) cannot be reached.
InitLong ==
  /\ opt = {}
  /\ javaBackups = {}
  /\ tomcatBackups = {}
  /\ units = {}
  /\ etcEnvironment = <<>>
  /\ etcProfile = <<>>
  /\ prevRecord = NoRecord
  /\ pc = [p \in Procs |-> "idle"]
  /\ loc = [p \in Procs |-> IdleLoc(NoLast)]
  /\ ops = 0
  /\ faults = 0
  /\ env = [ops |-> MaxOps + 1, faults |-> 0, badUrl |-> FALSE]

upgradeLong(p) ==
  \/ StartUpgrade(p) \/ readUpgradeConfiguration(p) \/ validateUpgradeConditions(p)
  \/ UJ_Find(p) \/ UJ_BackupRm(p) \/ UJ_BackupCp(p) \/ UJ_RmOld(p) \/ UJ_Dnf(p)
  \/ UJ_Wget(p) \/ UJ_Tar(p) \/ UJ_Mv(p) \/ UJ_Env(p) \/ UJ_Source(p)
  \/ UT_Find(p) \/ UT_BackupRm(p) \/ UT_BackupCp(p) \/ UT_RmOld(p) \/ UT_Wget(p)
  \/ UT_Tar(p) \/ UT_Mv(p) \/ UT_Perms(p) \/ UT_WriteUnit(p) \/ UT_Restart(p)
  \/ UT_Prune(p) \/ U_Reload(p) \/ U_Return(p)

NextLong ==
  \E p \in Caller :
    \/ install(p) \/ upgradeLong(p) \/ rollback(p) \/ uninstall(p)
    \/ fullUninstall(p) \/ Reap(p)

SpecLong == InitLong /\ [][NextLong]_vars

\* The host that `install` of Java j and Tomcat t leaves when no step fails.
InstalledHost(j, t) ==
  [opt |-> {Name("openjdk", j), Name("tomcat", t)},
   javaBackups |-> {},
   tomcatBackups |-> {},
   units |-> {Unit(t, j)},
   etcEnvironment |-> <<j>>,
   etcProfile |-> <<j>>,
   prevRecord |-> [java |-> j, tomcat |-> t, present |-> TRUE]]

\* A host with Java 1 and Tomcat 1 installed, on which install.sh has
\* registered the cron job: the
\* crontab line `*/2 * * * * node .../mavee_updater_cli.js upgrade` starts an
\* upgrade every two minutes, whether or not an earlier invocation (of cron,
\* or of the operator at the shell) is still running; no command takes a
\* lock. Commands do not fail on this host, a descriptor's URL may be bad.
InitCron ==
  /\ LET h == InstalledHost(<<1>>, <<1>>)
     IN  /\ opt = h.opt
         /\ units = h.units
         /\ etcEnvironment = h.etcEnvironment
         /\ etcProfile = h.etcProfile
         /\ prevRecord = h.prevRecord
  /\ javaBackups = {}
  /\ tomcatBackups = {}
  /\ pc = [p \in Procs |-> "idle"]
  /\ loc = [p \in Procs |-> IdleLoc(NoLast)]
  /\ ops = 0
  /\ faults = 0
  /\ env = [ops |-> MaxOps - 1, faults |-> 0, badUrl |-> TRUE]

\* Both invocations run the `upgrade` command.
NextCron == \E p \in Procs : upgrade(p) \/ Reap(p)

SpecCron == InitCron /\ [][NextCron]_vars


\* ------------------------------------------------------------ properties
\* The canonical install directories of a component in a listing of /opt.
JavaDirs(S) == Glob(S, "openjdk")

TomcatDirs(S) == Glob(S, "tomcat")

\* The invocation of `cmd` by p has ended and has not been reaped yet.
Done(p, cmd) == pc[p] = "done" /\ loc[p].cmd = cmd

\* The versions getCurrentVersions finds on host state h.
CurrentJavaOf(h) == Strip(HeadOf(Grep(h.opt, "openjdk-")), "openjdk")

CurrentTomcatOf(h) == Strip(HeadOf(Grep(h.opt, "tomcat-")), "tomcat")

\* Exactly one version of each component is installed on host state h.
OneOfEach(h) ==
  /\ Cardinality(JavaDirs(h.opt)) = 1
  /\ Cardinality(TomcatDirs(h.opt)) = 1

\* C1 (compensation end state): an upgrade that starts with one Java and one
\* Tomcat installed, upgrades Java, and then fails to download Tomcat (its only
\* failure) ends with the Java and the Tomcat it started with as the only
\* installed versions.
C1_CompensationEndState ==
  \A p \in Procs :
    (/\ Done(p, "upgrade")
     /\ OneOfEach(loc[p].pre)
     /\ loc[p].javaUpgraded
     /\ loc[p].fails = {"UT_Wget"})
    => /\ JavaDirs(opt) = JavaDirs(loc[p].pre.opt)
       /\ TomcatDirs(opt) = TomcatDirs(loc[p].pre.opt)

C1_Witness ==
  \E p \in Procs :
    /\ Done(p, "upgrade")
    /\ OneOfEach(loc[p].pre)
    /\ loc[p].javaUpgraded
    /\ loc[p].fails = {"UT_Wget"}
    /\ loc[p].rbCalls > 0
    /\ loc[p].cfgJava # loc[p].curJava
    /\ JavaDirs(opt) = {Name("openjdk", loc[p].curJava)}


\* C2 (self-healing single component), as the specification states it: an
\* upgrade that starts with one version of each component installed and whose
\* only failure is the download or the extraction of a component ends with that
\* component's old version installed again.
C2_SelfHealingComponent ==
  \A p \in Procs :
    (Done(p, "upgrade") /\ OneOfEach(loc[p].pre))
    => /\ loc[p].fails \in {{"UJ_Wget"}, {"UJ_Tar"}}
          => JavaDirs(opt) = JavaDirs(loc[p].pre.opt)
       /\ loc[p].fails \in {{"UT_Wget"}, {"UT_Tar"}}
          => TomcatDirs(opt) = TomcatDirs(loc[p].pre.opt)

\* The labels of upgradeJava and upgradeTomcat.
ComponentUpgradeLabels ==
  {"UJ_Find", "UJ_BackupRm", "UJ_BackupCp", "UJ_RmOld", "UJ_Dnf", "UJ_Wget",
   "UJ_Tar", "UJ_Mv", "UJ_Env", "UJ_Source",
   "UT_Find", "UT_BackupRm", "UT_BackupCp", "UT_RmOld", "UT_Wget", "UT_Tar",
   "UT_Mv", "UT_Perms", "UT_WriteUnit", "UT_Restart", "UT_Prune"}

\* A step of upgradeJava or upgradeTomcat removes a directory from /opt only
\* when the backup area holds its copy and no part of createBackup has failed.
RemovalIsBackedUp ==
  \A p \in Procs :
    (pc[p] \in ComponentUpgradeLabels /\ pc'[p] # pc[p])
    => \A n \in opt \ opt' :
         n.pfx \in {"openjdk", "tomcat"}
         => /\ n \in javaBackups \cup tomcatBackups
            /\ loc[p].fails = {}
            /\ pc[p] \in {"UJ_RmOld", "UT_RmOld"}

\* When createBackup fails, the component's upgrade is abandoned with the
\* install directory it found still in /opt: after a failure in upgradeJava
\* /opt is as the command found it, and when upgradeTomcat throws to upgrade's
\* catch the Tomcat directories are as the command found them.
FailedBackupKeepsInstall ==
  \A p \in Procs :
    /\ (loc[p].cmd = "upgrade" /\ loc[p].fails \cap {"UJ_BackupRm", "UJ_BackupCp"} # {})
       => (opt = loc[p].pre.opt /\ loc[p].existing \in opt)
    /\ (pc[p] = "U_Catch" /\ loc[p].fails \cap {"UT_BackupRm", "UT_BackupCp"} # {})
       => (TomcatDirs(opt) = TomcatDirs(loc[p].pre.opt) /\ loc[p].existing \in opt)

\* C3 (backup before destruction): in every upgrade of a component the live
\* install directory is removed only after its copy into the backup area has
\* completed, and a failed backup abandons the component's upgrade with the
\* old directory in place.
C3_BackupBeforeDestruction ==
  /\ []FailedBackupKeepsInstall
  /\ [][RemovalIsBackedUp]_vars

C3_Witness ==
  \E p \in Procs :
    /\ pc[p] \in {"UJ_Dnf", "UT_Wget"}
    /\ loc[p].existing # NoName
    /\ loc[p].existing \notin opt
    /\ loc[p].existing \in javaBackups \cup tomcatBackups


\* The upgrade of p ran to its end: no step failed and validation let it through.
UpgradeSucceeded(p) ==
  /\ Done(p, "upgrade")
  /\ loc[p].fails = {}
  /\ loc[p].exit = 0

\* C4 (upgrade postcondition), as the specification states it: a successful
\* upgrade of a host with one version of each component installed leaves, for
\* each component, exactly the new version installed and exactly one backup,
\* that of the version it replaced; the only service unit is the new Tomcat's.
C4_UpgradePostcondition ==
  \A p \in Procs :
    (UpgradeSucceeded(p) /\ OneOfEach(loc[p].pre))
    => /\ JavaDirs(opt) = {Name("openjdk", loc[p].cfgJava)}
       /\ TomcatDirs(opt) = {Name("tomcat", loc[p].cfgTomcat)}
       /\ javaBackups = JavaDirs(loc[p].pre.opt)
       /\ tomcatBackups = TomcatDirs(loc[p].pre.opt)
       /\ UnitNames(units) = {loc[p].cfgTomcat}

LatestJavaBackupOf(h) == TailOfSortV(Grep(h.javaBackups, "openjdk-"))

LatestTomcatBackupOf(h) == TailOfSortV(Grep(h.tomcatBackups, "tomcat-"))

\* C6 (rollback correctness): a rollback in which no command fails ends, for
\* each component whose latest backup is the backup of an install directory,
\* with that backup's version as the only installed version and with every
\* backup still in place; a second
\* rollback right after it leaves the installed versions, the backups and the
\* declarations of /etc/environment and /etc/profile as the first left them.
C6_RollbackCorrectness ==
  \A p \in Procs :
    (Done(p, "rollback") /\ loc[p].fails = {})
    => /\ LatestJavaBackupOf(loc[p].pre) # NoName
          => /\ JavaDirs(opt) = {LatestJavaBackupOf(loc[p].pre)}
             /\ javaBackups = loc[p].pre.javaBackups
       /\ LatestTomcatBackupOf(loc[p].pre).pfx = "tomcat"
          => /\ TomcatDirs(opt) = {LatestTomcatBackupOf(loc[p].pre)}
             /\ tomcatBackups = loc[p].pre.tomcatBackups
       /\ (loc[p].last = [cmd |-> "rollback", fails |-> {}])
          => /\ opt = loc[p].pre.opt
             /\ javaBackups = loc[p].pre.javaBackups
             /\ tomcatBackups = loc[p].pre.tomcatBackups
             /\ etcEnvironment = loc[p].pre.etcEnvironment
             /\ etcProfile = loc[p].pre.etcProfile
             /\ UnitNames(units) = UnitNames(loc[p].pre.units)

C6_Witness ==
  \E p \in Procs :
    /\ Done(p, "rollback")
    /\ loc[p].last = [cmd |-> "rollback", fails |-> {}]
    /\ LatestJavaBackupOf(loc[p].pre) # NoName
    /\ LatestTomcatBackupOf(loc[p].pre).pfx = "tomcat"
    /\ JavaDirs(opt) = {LatestJavaBackupOf(loc[p].pre)}
    /\ TomcatDirs(opt) = {LatestTomcatBackupOf(loc[p].pre)}

\* C7 (rollback without backup), as the specification states it: a rollback of
\* a component that has no backup leaves the component as it was and ends in
\* an error its caller sees.
C7_NoBackupIsAnError ==
  \A p \in Procs :
    Done(p, "rollback")
    => /\ LatestJavaBackupOf(loc[p].pre) = NoName
          => /\ JavaDirs(opt) = JavaDirs(loc[p].pre.opt)
             /\ loc[p].exit # 0
             /\ loc[p].said # "completed successfully"
       /\ LatestTomcatBackupOf(loc[p].pre) = NoName
          => /\ TomcatDirs(opt) = TomcatDirs(loc[p].pre.opt)
             /\ loc[p].exit # 0
             /\ loc[p].said # "completed successfully"

\* C8 (no-op upgrade): an upgrade whose descriptor names, for both components,
\* the version found installed goes no further than the validation, changes
\* nothing on the host and reports that both are already installed.
C8_NoOpUpgrade ==
  \A p \in Procs :
    (/\ loc[p].cmd = "upgrade"
     /\ loc[p].cfgJava # NoVersion
     /\ loc[p].cfgJava = CurrentJavaOf(loc[p].pre)
     /\ loc[p].cfgTomcat = CurrentTomcatOf(loc[p].pre))
    => /\ HostState = loc[p].pre
       /\ pc[p] \in {"U_Validate", "done"}
       /\ pc[p] = "done" => loc[p].said = "aborted: both already installed"

C8_Witness ==
  \E p \in Procs :
    /\ Done(p, "upgrade")
    /\ loc[p].cfgJava # NoVersion
    /\ loc[p].cfgJava = CurrentJavaOf(loc[p].pre)
    /\ loc[p].cfgTomcat = CurrentTomcatOf(loc[p].pre)
    /\ loc[p].said = "aborted: both already installed"
    /\ JavaDirs(opt) # {}


\* C9 (no silent failure), as the specification states it: a command in which
\* a step failed and that did not put the host back as it found it ends with a
\* non-zero status and without a report of success.
C9_NoSilentFailure ==
  \A p \in Procs :
    (pc[p] = "done" /\ loc[p].fails # {} /\ HostState # loc[p].pre)
    => /\ loc[p].exit # 0
       /\ loc[p].said # "completed successfully"

\* Nothing of either component is on host state h.
Absent(h) ==
  /\ JavaDirs(h.opt) = {}
  /\ TomcatDirs(h.opt) = {}
  /\ h.javaBackups = {}
  /\ h.tomcatBackups = {}
  /\ h.units = {}
  /\ h.etcEnvironment = <<>>
  /\ h.etcProfile = <<>>
  /\ ~h.prevRecord.present

\* C10 (uninstall idempotence): an uninstall in which no command fails leaves
\* nothing of either component and reports success; run again on that host it
\* changes nothing and reports success again; and on a host whose commands all
\* succeed no step of an uninstall fails.
C10_UninstallIdempotence ==
  \A p \in Procs :
    Done(p, "uninstall")
    => /\ faults = 0 => loc[p].fails = {}
       /\ loc[p].fails = {}
          => /\ Absent(HostState)
             /\ loc[p].exit = 0
             /\ loc[p].said = "completed successfully"
       /\ (loc[p].fails = {} /\ loc[p].last = [cmd |-> "uninstall", fails |-> {}])
          => HostState = loc[p].pre

C10_Witness ==
  \E p \in Procs :
    /\ Done(p, "uninstall")
    /\ loc[p].fails = {}
    /\ loc[p].last = [cmd |-> "uninstall", fails |-> {}]
    /\ ops = 3
    /\ Absent(HostState)
    /\ loc[p].exit = 0


\* The install of p ran to its end without a failed step.
InstallSucceeded(p) ==
  /\ Done(p, "install")
  /\ loc[p].fails = {}

\* C11 (install postcondition), as the specification states it: after a
\* successful install the installed-state inspector returns, for each
\* component, the version just installed, and the component has no backup.
C11_InstallPostcondition ==
  \A p \in Procs :
    InstallSucceeded(p)
    => /\ currentJavaVersion = loc[p].cfgJava
       /\ currentTomcatVersion = loc[p].cfgTomcat
       /\ javaBackups = {}
       /\ tomcatBackups = {}

\* No command is running.
AtRest == \A p \in Procs : pc[p] \in {"idle", "done"}

\* C12 (single-instance invariant), as the specification states it: between
\* commands /opt holds at most one openjdk-<version> directory and at most one
\* tomcat-<version> directory.
C12_SingleInstance ==
  AtRest
  => /\ Cardinality(JavaDirs(opt)) <= 1
     /\ Cardinality(TomcatDirs(opt)) <= 1

\* C13 (environment binding uniqueness), as the specification states it:
\* between commands /etc/environment and /etc/profile each hold at most one
\* declaration of JAVA_HOME.
C13_BindingUniqueness ==
  AtRest
  => /\ Len(etcEnvironment) <= 1
     /\ Len(etcProfile) <= 1

\* C14 (previous-versions record on upgrade), as the specification states it:
\* after a successful upgrade of a host with one version of each component
\* installed, previous_versions.json names the versions found installed when
\* the upgrade began.
C14_RecordOnUpgrade ==
  \A p \in Procs :
    (UpgradeSucceeded(p) /\ OneOfEach(loc[p].pre))
    => prevRecord = [java |-> loc[p].curJava, tomcat |-> loc[p].curTomcat,
                     present |-> TRUE]

\* C15 (no-op outcome is not a failure), as the specification states it: an
\* upgrade whose descriptor names the installed version of both components
\* does not end with a non-zero status.
C15_NoOpIsNotAFailure ==
  \A p \in Procs :
    (/\ Done(p, "upgrade")
     /\ loc[p].cfgJava # NoVersion
     /\ loc[p].cfgJava = CurrentJavaOf(loc[p].pre)
     /\ loc[p].cfgTomcat = CurrentTomcatOf(loc[p].pre))
    => loc[p].exit = 0


\* C17 (config error is fatal and side-effect free), as the specification
\* states it: an upgrade whose descriptor is missing or malformed changes
\* nothing on the host and ends with a non-zero status and without a report of
\* success.
C17_ConfigErrorIsFatal ==
  \A p \in Procs :
    (Done(p, "upgrade") /\ "U_ReadConfig" \in loc[p].fails)
    => /\ HostState = loc[p].pre
       /\ loc[p].exit # 0
       /\ loc[p].said # "completed successfully"

\* C18 (uninstall completeness), as the specification states it: when an
\* uninstall has ended, whether or not one of its steps failed, nothing of
\* either component remains: no install directory, no backup, no unit file,
\* no declaration of JAVA_HOME.
C18_UninstallCompleteness ==
  \A p \in Procs :
    Done(p, "uninstall")
    => /\ JavaDirs(opt) = {}
       /\ javaBackups = {}
       /\ etcEnvironment = <<>>
       /\ etcProfile = <<>>
       /\ TomcatDirs(opt) = {}
       /\ tomcatBackups = {}
       /\ units = {}

\* The labels of upgradeJava, its catch included.
UpgradeJavaLabels ==
  {"UJ_Find", "UJ_BackupRm", "UJ_BackupCp", "UJ_RmOld", "UJ_Dnf", "UJ_Wget",
   "UJ_WgetCatch", "UJ_Tar", "UJ_Mv", "UJ_Env", "UJ_Source"}

\* C20 (Java failure leaves the application server untouched), as the
\* specification states it: from the failure of a step of upgradeJava on, the
\* Tomcat directories, the Tomcat backups and the unit files are as the
\* upgrade found them, and upgradeTomcat is not entered.
C20_JavaFailureLeavesTomcat ==
  \A p \in Procs :
    (loc[p].cmd = "upgrade" /\ loc[p].fails \cap UpgradeJavaLabels # {})
    => /\ TomcatDirs(opt) = TomcatDirs(loc[p].pre.opt)
       /\ tomcatBackups = loc[p].pre.tomcatBackups
       /\ units = loc[p].pre.units
       /\ ~loc[p].javaUpgraded



\* C19 (fullUninstall removes the record), as the specification states it:
\* after fullUninstall() completes, the previous-versions record file
\* previous_versions.json no longer exists.
C19_FullUninstallRemovesRecord ==
  \A p \in Procs : Done(p, "fullUninstall") => ~prevRecord.present



\* The steps of upgradeJava after createBackup has begun, up to its last one.
InJavaTransition ==
  {"UJ_BackupCp", "UJ_RmOld", "UJ_Dnf", "UJ_Wget", "UJ_Tar", "UJ_Mv", "UJ_Env",
   "UJ_Source"}

\* The steps of upgradeTomcat after createBackup has begun, up to its last one.
InTomcatTransition ==
  {"UT_BackupCp", "UT_RmOld", "UT_Wget", "UT_Tar", "UT_Mv", "UT_Perms",
   "UT_WriteUnit", "UT_Restart", "UT_Prune"}

\* C16 (serialization of transitions), as the specification states it: with
\* upgrades started by the periodic task, two upgrade invocations are never
\* both between the start of their backup step and the end of their
\* transition for the same component.
C16_SerializedTransitions ==
  \A p, q \in Procs :
    (p # q /\ loc[p].cmd = "upgrade" /\ loc[q].cmd = "upgrade")
    => /\ ~(pc[p] \in InJavaTransition /\ pc[q] \in InJavaTransition)
       /\ ~(pc[p] \in InTomcatTransition /\ pc[q] \in InTomcatTransition)



\* C21 (consistent pair invariant), as the specification states it: between
\* commands, on a host with one version of each component, the service unit
\* of the installed Tomcat version names, as its JAVA_HOME, the directory of
\* the Java version that is installed.
C21_ConsistentPair ==
  (AtRest /\ OneOfEach(HostState))
  => \A u \in units :
       u.v = currentTomcatVersion => u.javaHome = currentJavaVersion



\* A step of an upgrade invocation that removes a unit file is a step of the
\* pruning loop, taken when the unit of the new version is written, no
\* command of the invocation (the restart among them) has failed, and the
\* unit of the new version stays.
PruneIsAfterActivate ==
  \A p \in Procs :
    (/\ loc[p].cmd = "upgrade"
     /\ pc'[p] # pc[p]
     /\ UnitNames(units) \ UnitNames(units') # {})
    => /\ pc[p] = "UT_Prune"
       /\ loc[p].fails = {}
       /\ loc[p].cfgTomcat \in UnitNames(units)
       /\ loc[p].cfgTomcat \in UnitNames(units')

\* An upgrade invocation whose restart of the new Tomcat failed has every
\* unit file it found.
FailedRestartKeepsUnits ==
  \A p \in Procs :
    (loc[p].cmd = "upgrade" /\ "UT_Restart" \in loc[p].fails)
    => UnitNames(loc[p].pre.units) \subseteq UnitNames(units)

\* C22 (activate before prune): during a Tomcat upgrade the unit files of
\* other versions are removed only after the unit of the new version has been
\* written and the new version has been started; when the start fails no unit
\* file is removed; the pruning never leaves the host without a unit file.
C22_ActivateBeforePrune ==
  /\ [][PruneIsAfterActivate]_vars
  /\ []FailedRestartKeepsUnits

\* An upgrade has pruned the unit of the version it replaced.
C22_Witness ==
  \E p \in Procs :
    /\ UpgradeSucceeded(p)
    /\ UnitNames(loc[p].pre.units) \ UnitNames(units) # {}
    /\ loc[p].cfgTomcat \in UnitNames(units)



\* The rollback of p ran to its end with a Tomcat backup to restore and no
\* failed step.
RollbackSucceeded(p) ==
  /\ Done(p, "rollback")
  /\ loc[p].fails = {}
  /\ LatestTomcatBackupOf(loc[p].pre) # NoName

\* C23 (no stale units after a successful transition), as the specification
\* states it: after a successful upgrade or rollback of Tomcat every Tomcat
\* unit file present is that of the Tomcat version installed.
C23_NoStaleUnits ==
  \A p \in Procs :
    (UpgradeSucceeded(p) \/ RollbackSucceeded(p))
    => \A v \in UnitNames(units) : v = currentTomcatVersion



\* The versions a file's JAVA_HOME declarations name.
Declared(lines) == {lines[i] : i \in 1..Len(lines)}

\* C24 (no stale environment value after rollback), as the specification
\* states it: after a successful rollback of Java, /etc/environment and
\* /etc/profile declare the restored version and no other.
C24_NoStaleBinding ==
  \A p \in Procs :
    (/\ Done(p, "rollback")
     /\ loc[p].fails = {}
     /\ LatestJavaBackupOf(loc[p].pre) # NoName)
    => /\ Declared(etcEnvironment) = {LatestJavaBackupOf(loc[p].pre).v}
       /\ Declared(etcProfile) = {LatestJavaBackupOf(loc[p].pre).v}



\* The upgrade of p began with one version of each component, upgraded Java,
\* placed the new Tomcat, and its only failed command is the restart.
RestartFailed(p) ==
  /\ Done(p, "upgrade")
  /\ OneOfEach(loc[p].pre)
  /\ loc[p].javaUpgraded
  /\ loc[p].fails = {"UT_Restart"}

\* C25 (activation failure triggers compensation): when the restart of the new
\* Tomcat fails after Java was upgraded, upgrade() runs rollbackUpgrade, and
\* the command ends with /opt as it found it: the Java and the Tomcat it
\* started with, no directory of the new versions, and the JAVA_HOME
\* declarations naming the Java it started with.
C25_ActivationFailureCompensated ==
  \A p \in Procs :
    RestartFailed(p)
    => /\ loc[p].rbCalls = 1
       /\ opt = loc[p].pre.opt
       /\ Name("openjdk", loc[p].cfgJava) \notin opt
       /\ Name("tomcat", loc[p].cfgTomcat) \notin opt
       /\ currentJavaVersion = loc[p].curJava
       /\ currentTomcatVersion = loc[p].curTomcat
       /\ Declared(etcEnvironment) = {loc[p].curJava}
       /\ Declared(etcProfile) = {loc[p].curJava}

C25_Witness ==
  \E p \in Procs :
    /\ RestartFailed(p)
    /\ loc[p].cfgJava # loc[p].curJava
    /\ loc[p].cfgTomcat # loc[p].curTomcat
    /\ loc[p].rbCalls = 1
    /\ opt = loc[p].pre.opt



\* The labels of upgradeTomcat and of the reload that follows it.
UpgradeTomcatLabels ==
  {"UT_Find", "UT_BackupRm", "UT_BackupCp", "UT_RmOld", "UT_Wget", "UT_Tar",
   "UT_Mv", "UT_Perms", "UT_WriteUnit", "UT_Restart", "UT_Prune", "U_Reload"}

\* C26 (single compensation attempt), as the specification states it: an
\* upgrade() call on a host with one version of each component, in which
\* Tomcat fails after Java was upgraded, has called rollbackUpgrade exactly
\* once when it ends.
C26_SingleCompensation ==
  \A p \in Procs :
    (/\ Done(p, "upgrade")
     /\ OneOfEach(loc[p].pre)
     /\ loc[p].javaUpgraded
     /\ loc[p].fails \cap UpgradeTomcatLabels # {})
    => loc[p].rbCalls = 1



\* C27 (one step back), as the specification states it: after a successful
\* upgrade of a host with one version of each component, the backup that
\* rollback selects (the greatest under `sort -V`) is, for each component, the
\* version that was installed when the upgrade began.
C27_OneStepBack ==
  \A p \in Procs :
    (UpgradeSucceeded(p) /\ OneOfEach(loc[p].pre))
    => /\ LatestJavaBackupOf(HostState) = Name("openjdk", loc[p].curJava)
       /\ LatestTomcatBackupOf(HostState) = Name("tomcat", loc[p].curTomcat)



\* The descriptor of p's upgrade names the installed version of exactly one
\* component of a host with one version of each.
PartialMatch(p) ==
  /\ Done(p, "upgrade")
  /\ OneOfEach(loc[p].pre)
  /\ loc[p].cfgJava # NoVersion
  /\ (loc[p].cfgJava = CurrentJavaOf(loc[p].pre))
       # (loc[p].cfgTomcat = CurrentTomcatOf(loc[p].pre))

\* C28 (partial match still upgrades), as the specification states it: an
\* upgrade whose descriptor names the installed version of exactly one
\* component, and in which no command fails, ends with the other component at
\* the descriptor's version.
C28_PartialMatchUpgrades ==
  \A p \in Procs :
    (PartialMatch(p) /\ loc[p].fails = {})
    => /\ currentJavaVersion = loc[p].cfgJava
       /\ currentTomcatVersion = loc[p].cfgTomcat

\* C28, as the program has it: an upgrade whose descriptor names the
\* installed version of either component stops in validateUpgradeConditions
\* with status 1 and the host unchanged; an upgrade invocation that has
\* changed the host has a descriptor in which both versions differ from the
\* installed ones.
C28_AnyMatchAborts ==
  \A p \in Procs :
    /\ (/\ Done(p, "upgrade")
        /\ loc[p].cfgJava # NoVersion
        /\ \/ loc[p].cfgJava = CurrentJavaOf(loc[p].pre)
           \/ loc[p].cfgTomcat = CurrentTomcatOf(loc[p].pre))
       => /\ HostState = loc[p].pre
          /\ loc[p].exit = 1
          /\ loc[p].said \in {"aborted: both already installed",
                              "aborted: java already installed",
                              "aborted: tomcat already installed"}
    /\ (loc[p].cmd = "upgrade" /\ HostState # loc[p].pre)
       => /\ loc[p].cfgJava # CurrentJavaOf(loc[p].pre)
          /\ loc[p].cfgTomcat # CurrentTomcatOf(loc[p].pre)

C28_Witness ==
  \E p \in Procs :
    /\ PartialMatch(p)
    /\ loc[p].last = [cmd |-> "install", fails |-> {}]
    /\ loc[p].cfgTomcat # CurrentTomcatOf(loc[p].pre)
    /\ loc[p].said = "aborted: java already installed"
    /\ loc[p].exit = 1



\* C29 (per-component atomicity), as the specification states it: an upgrade
\* of a host with one version of each component, in which a step of
\* upgradeJava or upgradeTomcat fails after the backup of the component's old
\* version was made, does not end with no version of that component
\* installed.
C29_ComponentAtomicity ==
  \A p \in Procs :
    (Done(p, "upgrade") /\ OneOfEach(loc[p].pre))
    => /\ (/\ loc[p].fails \cap UpgradeJavaLabels # {}
           /\ Name("openjdk", loc[p].curJava) \in javaBackups)
          => JavaDirs(opt) # {}
       /\ (/\ loc[p].fails \cap UpgradeTomcatLabels # {}
           /\ Name("tomcat", loc[p].curTomcat) \in tomcatBackups)
          => TomcatDirs(opt) # {}



\* The labels of installJava: its chain is joined by && throughout, a failure
\* at any of them rejects the promise.
InstallJavaLabels ==
  {"IJ_Prepare", "IJ_Wget", "IJ_Tar", "IJ_RmOld", "IJ_Mv", "IJ_EnvFile",
   "IJ_Profile", "IJ_Source"}

\* The labels of installTomcat.
InstallTomcatLabels ==
  {"IT_Prepare", "IT_Mkdir", "IT_Wget", "IT_Tar", "IT_Perms", "IT_Unit",
   "IT_Chmod", "IT_Restart"}

\* The steps of installTomcat whose failure rejects its promise (a failure
\* left of the chain's `|| true` does not).
InstallTomcatRejects == {"IT_Perms", "IT_Chmod", "IT_Restart"}

\* installJava or installTomcat of p's install has rejected.
InstallRejected(p) ==
  /\ loc[p].cmd = "install"
  /\ loc[p].fails \cap (InstallJavaLabels \cup InstallTomcatRejects) # {}

\* A step of an install invocation that changes the record is
\* createPreviousVersionsFile, taken when neither part has rejected; it writes
\* the descriptor's versions, whose directories are in /opt.
RecordWrittenAfterBoth ==
  \A p \in Procs :
    (/\ loc[p].cmd = "install"
     /\ pc'[p] # pc[p]
     /\ prevRecord' # prevRecord)
    => /\ pc[p] = "I_Record"
       /\ ~InstallRejected(p)
       /\ prevRecord' = [java |-> loc[p].cfgJava, tomcat |-> loc[p].cfgTomcat,
                         present |-> TRUE]
       /\ Name("openjdk", loc[p].cfgJava) \in opt
       /\ Name("tomcat", loc[p].cfgTomcat) \in opt

\* An install in which a part has rejected has the record it found and does
\* not reach createPreviousVersionsFile; after a rejected installJava,
\* installTomcat is not started: the Tomcat directories and the units are as
\* the command found them. installTomcat runs with the descriptor's Java in
\* place.
InstallInOrder ==
  \A p \in Procs :
    /\ InstallRejected(p)
       => /\ prevRecord = loc[p].pre.prevRecord
          /\ pc[p] \in {"I_Return", "done"}
    /\ (loc[p].cmd = "install" /\ loc[p].fails \cap InstallJavaLabels # {})
       => /\ TomcatDirs(opt) = TomcatDirs(loc[p].pre.opt)
          /\ units = loc[p].pre.units
    /\ pc[p] \in InstallTomcatLabels \cup {"I_Record"}
       => /\ Name("openjdk", loc[p].cfgJava) \in opt
          /\ etcEnvironment = <<loc[p].cfgJava>>

C31_OldVersionNeverLost ==
  /\ Name("openjdk", <<1>>) \in opt \cup javaBackups
  /\ Name("tomcat", <<1>>) \in opt \cup tomcatBackups

=============================================================================
